---- MODULE Spec2Model ----
(***************************************************************************)
(* Model of smart.py: the two-tier product lookup pipeline.                *)
(*   main() = process_all (Go-UPC lookups with 429 backoff)                *)
(*          ; save_to_xlsx (backfill from Open Food Facts, image download) *)
(*          ; save_failed_xlsx ; process_off ; save_off_xlsx.              *)
(* The two providers and the image hosts are the environment: each request *)
(* is answered by a nondeterministic choice among the possible responses.  *)
(* Strings "" stand for an absent / empty (falsy) value.                   *)
(* SpecImage is the image block of the two report writers on its own, for  *)
(* any brand, name and URL given as character sequences.                   *)
(* SpecSeparate is productDetailsExtractionSeparate.py.                    *)
(***************************************************************************)
EXTENDS Integers, Sequences, FiniteSets, TLC

\* ---------------------------------------------------------------- bounds
\* Longest barcode column read from the CSV.
MaxRows == 2

\* Longest brand / product name of the image block.
MaxLen == 2

\* ----------------------------------------------------- program constants
MAX_RETRIES == 5
INITIAL_WAIT == 1

\* ------------------------------------------------------------ environment
\* Barcode cells after .strip(): "" is an empty cell.
UPCS == {"u1", "u2"}
Cells == UPCS \cup {""}

\* A code the primary provider may report instead of the queried one
\* (normalised or re-padded barcode).
OtherCode == "u9"

RECURSIVE SeqsUpTo(_, _)
SeqsUpTo(S, n) ==
    IF n = 0 THEN {<<>>}
    ELSE LET shorter == SeqsUpTo(S, n - 1)
         IN  shorter \cup {Append(s, x) : s \in {t \in shorter : Len(t) = n - 1}, x \in S}

\* The "product" entry of a Go-UPC payload: absent/empty, not an object (null), or
\* an object with all three fields or with exactly one of them.
GoProducts ==
    {[shape |-> "absent", name |-> "", brand |-> "", imageUrl |-> ""],
     [shape |-> "null", name |-> "", brand |-> "", imageUrl |-> ""],
     [shape |-> "object", name |-> "A", brand |-> "P", imageUrl |-> "http://g/a.jpg"],
     [shape |-> "object", name |-> "A", brand |-> "", imageUrl |-> ""],
     [shape |-> "object", name |-> "", brand |-> "P", imageUrl |-> ""],
     [shape |-> "object", name |-> "", brand |-> "", imageUrl |-> "http://g/a.jpg"]}

\* Products that are also seen under a code other than the queried one.
RecodedProducts ==
    {[shape |-> "object", name |-> "A", brand |-> "", imageUrl |-> ""]}

\* Decoded JSON bodies of a 200 answer of Go-UPC for upc u.
GoPayloads(u) ==
    {[code |-> u, product |-> p] : p \in GoProducts}
    \cup {[code |-> OtherCode, product |-> p] : p \in RecodedProducts}

NoPayload == [code |-> "", product |-> [shape |-> "absent", name |-> "", brand |-> "", imageUrl |-> ""]]

\* What requests.get + resp.json() can produce for one Go-UPC request.
GoResponses(u) ==
    {[kind |-> "timeout", status |-> 0, json |-> FALSE, payload |-> NoPayload],
     [kind |-> "neterr", status |-> 0, json |-> FALSE, payload |-> NoPayload],
     [kind |-> "http", status |-> 200, json |-> FALSE, payload |-> NoPayload]}
    \cup {[kind |-> "http", status |-> s, json |-> FALSE, payload |-> NoPayload] :
            s \in {429, 404, 401, 403, 500}}
    \cup {[kind |-> "http", status |-> 200, json |-> TRUE, payload |-> p] : p \in GoPayloads(u)}

\* The "product" entry of an Open Food Facts body.
OffProducts ==
    {[shape |-> "absent", product_name |-> "", brands |-> "", image_url |-> ""],
     [shape |-> "null", product_name |-> "", brands |-> "", image_url |-> ""]}
    \cup {[shape |-> "object", product_name |-> "", brands |-> "C", image_url |-> ""],
          [shape |-> "object", product_name |-> "B", brands |-> "", image_url |-> "http://o/b.webp"],
          [shape |-> "object", product_name |-> "B", brands |-> "C", image_url |-> "http://o/b.webp"]}

EmptyOffProduct == [shape |-> "absent", product_name |-> "", brands |-> "", image_url |-> ""]

\* Decoded JSON bodies of Open Food Facts: dict |-> FALSE is a body that decodes to
\* something that is no JSON object (a list, a string).
OffBodies(u) ==
    {[dict |-> FALSE, code |-> "", status |-> 0, product |-> EmptyOffProduct]}
    \cup {[dict |-> TRUE, code |-> c, status |-> 0, product |-> EmptyOffProduct] : c \in {u}}
    \cup {[dict |-> TRUE, code |-> u, status |-> 1, product |-> p] : p \in OffProducts}
    \cup {[dict |-> TRUE, code |-> "", status |-> 1, product |-> p] :
            p \in {q \in OffProducts : q.product_name # "" /\ q.brands # ""}}

NoOffBody == [dict |-> FALSE, code |-> "", status |-> 0, product |-> EmptyOffProduct]

OffResponses(u) ==
    {[kind |-> "timeout", status |-> 0, json |-> FALSE, body |-> NoOffBody],
     [kind |-> "neterr", status |-> 0, json |-> FALSE, body |-> NoOffBody],
     [kind |-> "http", status |-> 200, json |-> FALSE, body |-> NoOffBody]}
    \cup {[kind |-> "http", status |-> s, json |-> FALSE, body |-> NoOffBody] :
            s \in {429, 404}}
    \cup {[kind |-> "http", status |-> 200, json |-> TRUE, body |-> b] : b \in OffBodies(u)}

\* ------------------------------------------------------------------ state
VARIABLES
    inputs,        \* barcode column of the CSV, one stripped cell per row
    pc,            \* position of main()
    exitStatus,    \* "" while running / after a normal end, else the sys.exit message
    i,             \* process_all: row being read (1-based)
    upc,           \* lookup_upc: its argument
    attempt,       \* lookup_upc: loop counter
    wait,          \* lookup_upc: next backoff delay
    answers,       \* answers received by the current lookup_upc call, in order
    sleeps,        \* backoff delays slept by the current lookup_upc call, in order
    result,        \* how the current lookup_upc call ended
    records,       \* process_all: payloads of successful lookups
    reqUpcs,       \* the identifier that was passed to lookup_upc for each of records
    failed,        \* process_all: the failure ledger
    paces,         \* number of time.sleep(REQUEST_DELAY) calls so far
    idx,           \* save_to_xlsx / process_off / save_off_xlsx: loop position (1-based)
    cur,           \* save_to_xlsx: the locals upc, name, brand, url of the iteration in progress
    off,           \* save_to_xlsx: the dict lookup_off returned in the iteration in progress
    offAnswer,     \* lookup_off: what the request of the latest call was answered (kind, status)
    offReqs,       \* identifiers queried at Open Food Facts so far, in order
    imgReqs,       \* image URLs requested so far, in order
    stored,        \* the files in images/: path, bytes ("raw" as downloaded / "png" re-encoded), source URL
    rows,          \* worksheet rows of the workbook being filled
    productsFile,  \* final_product_data.xlsx: <<>> until saved, then <<rows>>
    failedFile,    \* final_failed_upcs.xlsx: <<>> until saved, then <<ledger>>
    offResults,    \* process_off: dicts returned for the ledger
    offFile,       \* final_off_products.xlsx: <<>> until saved, then <<rows>>
    imgBrand,      \* image block: brand
    imgName,       \* image block: name
    imgUrl,        \* image block: url
    imgExt,        \* image block: ext
    imgFn,         \* image block: fn
    barcodes,      \* productDetailsExtractionSeparate.py: the stripped barcode column
    bk,            \* productDetailsExtractionSeparate.py: loop position (1-based)
    sepAnswers,    \* productDetailsExtractionSeparate.py: answers received, one per request
    found_records,       \* productDetailsExtractionSeparate.py
    not_found_barcodes,  \* productDetailsExtractionSeparate.py
    sepFiles       \* productDetailsExtractionSeparate.py: Excel files written

vars == <<inputs, pc, exitStatus, i, upc, attempt, wait, answers, sleeps, result,
          records, reqUpcs, failed, paces, idx, cur, off, offAnswer, offReqs, imgReqs,
          stored, rows, productsFile, failedFile, offResults, offFile,
          imgBrand, imgName, imgUrl, imgExt, imgFn,
          barcodes, bk, sepAnswers, found_records, not_found_barcodes, sepFiles>>

imageVars == <<imgBrand, imgName, imgUrl, imgExt, imgFn>>
separateVars == <<barcodes, bk, sepAnswers, found_records, not_found_barcodes, sepFiles>>
\* What smart.py's main() never touches
outsideVars == <<imageVars, separateVars>>

NoResult == [kind |-> "none", code |-> 0, payload |-> NoPayload]
NoCur == [upc |-> "", name |-> "", brand |-> "", url |-> ""]
NoOff == [code |-> "", status |-> 0, product |-> EmptyOffProduct]
NoAnswer == [kind |-> "none", status |-> 0]

\* main() has not started a lookup, a reconciliation or a report
PipelineIdle ==
    /\ exitStatus = ""
    /\ i = 1
    /\ upc = ""
    /\ attempt = 0
    /\ wait = 0
    /\ answers = <<>>
    /\ sleeps = <<>>
    /\ result = NoResult
    /\ records = <<>>
    /\ reqUpcs = <<>>
    /\ failed = <<>>
    /\ paces = 0
    /\ idx = 0
    /\ cur = NoCur
    /\ off = NoOff
    /\ offAnswer = NoAnswer
    /\ offReqs = <<>>
    /\ imgReqs = <<>>
    /\ stored = {}
    /\ rows = <<>>
    /\ productsFile = <<>>
    /\ failedFile = <<>>
    /\ offResults = <<>>
    /\ offFile = <<>>

ImageIdle ==
    /\ imgBrand = <<>>
    /\ imgName = <<>>
    /\ imgUrl = <<>>
    /\ imgExt = <<>>
    /\ imgFn = <<>>

SeparateIdle ==
    /\ barcodes = <<>>
    /\ bk = 1
    /\ sepAnswers = <<>>
    /\ found_records = <<>>
    /\ not_found_barcodes = <<>>
    /\ sepFiles = {}

Init ==
    /\ inputs \in SeqsUpTo(Cells, MaxRows)
    /\ pc = "process_all"
    /\ PipelineIdle
    /\ ImageIdle
    /\ SeparateIdle

\* ------------------------------------------------------ make_image_filename
\* A Python str of the image block is a sequence of one-character strings.
UpperCase == <<"A", "B", "C", "D", "E", "F", "G", "H", "I", "J", "K", "L", "M",
               "N", "O", "P", "Q", "R", "S", "T", "U", "V", "W", "X", "Y", "Z">>
LowerCase == <<"a", "b", "c", "d", "e", "f", "g", "h", "i", "j", "k", "l", "m",
               "n", "o", "p", "q", "r", "s", "t", "u", "v", "w", "x", "y", "z">>
Digits == {"0", "1", "2", "3", "4", "5", "6", "7", "8", "9"}

\* The characters of the class [A-Za-z0-9 _\-]
SafeChars ==
    {UpperCase[k] : k \in 1..26} \cup {LowerCase[k] : k \in 1..26} \cup Digits
        \cup {" ", "_", "-"}

\* Faulty variant of IsUnsafe: the space is not in the class of kept characters.
IsUnsafeSpace(c) == c \notin (SafeChars \ {" "})

\* [^A-Za-z0-9 _\-]
IsUnsafe(c) == c \notin SafeChars

\* Where s matches [^A-Za-z0-9 _\-], and where it matches _
UnsafeIn(s) == [j \in 1..Len(s) |-> IsUnsafe(s[j])]
UnderscoreIn(s) == [j \in 1..Len(s) |-> s[j] = "_"]

\* re.sub(r'<class>+', '_', s), hit telling where s matches the class: every
\* maximal run of matching characters becomes one underscore
SubRuns(s, hit) ==
    LET marked == [j \in 1..Len(s) |->
                     IF ~hit[j] THEN s[j]
                     ELSE IF j > 1 /\ hit[j - 1] THEN "" ELSE "_"]
    IN  SelectSeq(marked, LAMBDA c : c # "")

Least(S) == CHOOSE x \in S : \A y \in S : x <= y
Greatest(S) == CHOOSE x \in S : \A y \in S : x >= y

\* s.strip(chars)
Strip(s, chars) ==
    LET keep == {j \in 1..Len(s) : s[j] \notin chars}
    IN  IF keep = {} THEN <<>> ELSE SubSeq(s, Least(keep), Greatest(keep))

\* re.sub(r'[^A-Za-z0-9 _\-]+', '_', s), then re.sub(r'_+', '_', ...).strip('_ ')
Sanitize(s) ==
    LET subbed == SubRuns(s, UnsafeIn(s))
    IN  Strip(SubRuns(subbed, UnderscoreIn(subbed)), {"_", " "})

Unknown == <<"u", "n", "k", "n", "o", "w", "n">>

\* make_image_filename(brand, product_name, ext) for str arguments ('' for a falsy
\* one): the two sanitized parts joined by '_', ext appended, and the whole name
\* collapsed and stripped once more; "unknown" + ext when nothing is left.
make_image_filename(brand, product_name, ext) ==
    LET safe_brand == Sanitize(brand)
        safe_name == Sanitize(product_name)
        joined == safe_brand \o <<"_">> \o safe_name \o ext
        filename == Strip(SubRuns(joined, UnderscoreIn(joined)), {"_", " "})
    IN  IF filename # <<>> THEN filename ELSE Unknown \o ext

\* ------------------------------------------------- extension of an image URL
\* Path(url).name: the last component of the path (trailing slashes dropped)
PathName(url) ==
    LET p == IF \A j \in 1..Len(url) : url[j] = "/" THEN <<>>
             ELSE SubSeq(url, 1, Greatest({j \in 1..Len(url) : url[j] # "/"}))
        slashes == {j \in 1..Len(p) : p[j] = "/"}
    IN  IF slashes = {} THEN p ELSE SubSeq(p, Greatest(slashes) + 1, Len(p))

\* PurePath.suffix of a file name: from its last dot on, when that dot is neither
\* the first nor the last character
Suffix(name) ==
    LET dots == {j \in 1..Len(name) : name[j] = "."}
    IN  IF dots = {} THEN <<>>
        ELSE IF 1 < Greatest(dots) /\ Greatest(dots) < Len(name)
        THEN SubSeq(name, Greatest(dots), Len(name))
        ELSE <<>>

\* s.split('?')[0]
BeforeQuery(s) ==
    LET marks == {j \in 1..Len(s) : s[j] = "?"}
    IN  IF marks = {} THEN s ELSE SubSeq(s, 1, Least(marks) - 1)

\* s.lower()
ToLower(s) ==
    [j \in 1..Len(s) |->
        IF \E k \in 1..26 : UpperCase[k] = s[j]
        THEN LowerCase[CHOOSE k \in 1..26 : UpperCase[k] = s[j]]
        ELSE s[j]]

Jpg == <<".", "j", "p", "g">>
Webp == <<".", "w", "e", "b", "p">>
Png == <<".", "p", "n", "g">>

\* ext = Path(url).suffix.split('?')[0].lower() or '.jpg'
Ext(url) ==
    LET e == ToLower(BeforeQuery(Suffix(PathName(url))))
    IN  IF e # <<>> THEN e ELSE Jpg

\* dest.with_suffix(new) on the file name
WithSuffix(fn, new) == SubSeq(fn, 1, Len(fn) - Len(Suffix(fn))) \o new

\* What one download attempt can come to: the bytes are stored, requests.get /
\* raise_for_status raises, or opening, converting or writing the image raises.
ImageOutcomes == {"ok", "RequestException", "OSError"}

\* Faulty variant of Caught: except RequestException.
CaughtRequestOnly(e) == e = "RequestException"

\* except Exception: both exception classes are caught
Caught(e) == e \in {"RequestException", "OSError"}

\* images/ after the file at path was (over)written
Put(files, path, bytes, url) ==
    {f \in files : f.path # path} \cup {[path |-> path, bytes |-> bytes, url |-> url]}

\* The file name written: dest.with_suffix('.png') for a .webp extension, else fn
Dest(fn, e) == IF e = Webp THEN WithSuffix(fn, Png) ELSE fn

\* images/ after the try block for file name fn and extension e: a .webp payload is
\* re-encoded and saved under the .png name, any other payload is written as it is.
StoreImage(files, dest, e, url, out) ==
    IF out # "ok" THEN files
    ELSE IF e = Webp THEN Put(files, dest, "png", url)
    ELSE Put(files, dest, "raw", url)

\* The str values the pipeline model works with, as character sequences.
Chars(s) ==
    CASE s = "" -> <<>>
      [] s = "http://g/a.jpg" ->
            <<"h", "t", "t", "p", ":", "/", "/", "g", "/", "a", ".", "j", "p", "g">>
      [] s = "http://o/b.webp" ->
            <<"h", "t", "t", "p", ":", "/", "/", "o", "/", "b", ".", "w", "e", "b", "p">>
      [] OTHER -> <<s>>

\* ----------------------------------------------------------- lookup_upc
\* Faulty variant of Classify: a timeout is retried like a 429.
ClassifyRetryTimeout(r, lib) ==
    CASE r.kind = "timeout" -> "RateLimited"
      [] r.kind = "neterr" -> "Break"
      [] r.status = 429 -> "RateLimited"
      [] r.status = 404 -> "NotFound"
      [] r.status \in {401, 403} -> "Fatal"
      [] r.status >= 400 -> "HttpError"
      [] ~r.json -> IF lib = "new" THEN "Break" ELSE "ValueError"
      [] OTHER -> "Success"

\* Faulty variant of Classify: a 404 is retried like a 429.
ClassifyRetry404(r, lib) ==
    CASE r.kind = "timeout" -> "Break"
      [] r.kind = "neterr" -> "Break"
      [] r.status \in {429, 404} -> "RateLimited"
      [] r.status \in {401, 403} -> "Fatal"
      [] r.status >= 400 -> "HttpError"
      [] ~r.json -> IF lib = "new" THEN "Break" ELSE "ValueError"
      [] OTHER -> "Success"

\* Faulty variant of Classify: 401/403 is re-raised as an ordinary HTTPError.
ClassifyAuthAsHttpError(r, lib) ==
    CASE r.kind = "timeout" -> "Break"
      [] r.kind = "neterr" -> "Break"
      [] r.status = 429 -> "RateLimited"
      [] r.status = 404 -> "NotFound"
      [] r.status >= 400 -> "HttpError"
      [] ~r.json -> IF lib = "new" THEN "Break" ELSE "ValueError"
      [] OTHER -> "Success"

\* How lookup_upc treats one answer. lib is the installed requests library: in
\* "new" releases the JSON decode error of resp.json() is a RequestException, in
\* "old" ones it is a plain ValueError that no handler of lookup_upc catches.
Classify(r, lib) ==
    CASE r.kind = "timeout" -> "Break"
      [] r.kind = "neterr" -> "Break"
      [] r.status = 429 -> "RateLimited"
      [] r.status = 404 -> "NotFound"
      [] r.status \in {401, 403} -> "Fatal"
      [] r.status >= 400 -> "HttpError"
      [] ~r.json -> IF lib = "new" THEN "Break" ELSE "ValueError"
      [] OTHER -> "Success"

\* Faulty variant of NextWait: linear instead of doubling backoff.
NextWaitLinear(w) == w + INITIAL_WAIT

\* wait *= 2
NextWait(w) == w * 2

\* Faulty variant of MoreAttempts: range(1, MAX_RETRIES).
MoreAttemptsShort(att) == att < MAX_RETRIES - 1

\* range(1, MAX_RETRIES + 1) has a further value after att
MoreAttempts(att) == att < MAX_RETRIES

\* raise HTTPError("Failed Go-UPC lookup ... after retries"): an HTTPError that
\* carries no response (code 0)
FailedLookup == [kind |-> "HTTPError", code |-> 0, payload |-> NoPayload]

\* The result of the call for a classification that ends it.
Outcome(c, r) ==
    CASE c = "Success" -> [kind |-> "ok", code |-> r.status, payload |-> r.payload]
      [] c = "NotFound" -> [kind |-> "HTTPError", code |-> r.status, payload |-> NoPayload]
      [] c = "HttpError" -> [kind |-> "HTTPError", code |-> r.status, payload |-> NoPayload]
      [] c = "Fatal" -> [kind |-> "SystemExit", code |-> r.status, payload |-> NoPayload]
      [] c = "ValueError" -> [kind |-> "ValueError", code |-> r.status, payload |-> NoPayload]
      [] OTHER -> FailedLookup

\* Where main() is after lookup_upc ended with result res: SystemExit passes every
\* handler, any other non-HTTPError exception reaches main's "except Exception".
AfterLookup(res) ==
    CASE res.kind = "SystemExit" -> [pc |-> "exit", status |-> "Authentication error"]
      [] res.kind = "ValueError" -> [pc |-> "exit", status |-> "Unexpected error"]
      [] OTHER -> [pc |-> "process_all_ret", status |-> ""]

primaryVars == <<records, reqUpcs, failed, paces>>
reconVars == <<idx, cur, off, offAnswer, offReqs, imgReqs, stored, rows, productsFile, failedFile,
               offResults, offFile>>
callVars == <<upc, attempt, wait, answers, sleeps, result>>

\* process_all: an empty cell is skipped (continue, no lookup and no sleep)
PA_Skip ==
    /\ pc = "process_all"
    /\ i <= Len(inputs)
    /\ inputs[i] = ""
    /\ i' = i + 1
    /\ UNCHANGED <<inputs, pc, exitStatus>>
    /\ UNCHANGED callVars
    /\ UNCHANGED primaryVars
    /\ UNCHANGED reconVars
    /\ UNCHANGED outsideVars

\* process_all calls lookup_upc(upc): the locals of the call are set up
PA_Call ==
    /\ pc = "process_all"
    /\ i <= Len(inputs)
    /\ inputs[i] # ""
    /\ pc' = "lookup_upc"
    /\ upc' = inputs[i]
    /\ attempt' = 1
    /\ wait' = INITIAL_WAIT
    /\ answers' = <<>>
    /\ sleeps' = <<>>
    /\ result' = NoResult
    /\ UNCHANGED <<inputs, exitStatus, i>>
    /\ UNCHANGED primaryVars
    /\ UNCHANGED reconVars
    /\ UNCHANGED outsideVars

\* One iteration of the retry loop: one request and what follows from its answer.
LU_Request ==
    /\ pc = "lookup_upc"
    /\ \E r \in GoResponses(upc), lib \in {"new", "old"} :
         LET c == Classify(r, lib) IN
         /\ answers' = Append(answers, r)
         /\ IF c = "RateLimited"
            THEN /\ sleeps' = Append(sleeps, wait)
                 /\ wait' = NextWait(wait)
                 /\ IF MoreAttempts(attempt)
                    THEN /\ attempt' = attempt + 1
                         /\ UNCHANGED <<pc, result, exitStatus>>
                    ELSE /\ result' = FailedLookup
                         /\ pc' = "process_all_ret"
                         /\ UNCHANGED <<attempt, exitStatus>>
            ELSE /\ result' = Outcome(c, r)
                 /\ pc' = AfterLookup(Outcome(c, r)).pc
                 /\ exitStatus' = AfterLookup(Outcome(c, r)).status
                 /\ UNCHANGED <<attempt, wait, sleeps>>
    /\ UNCHANGED <<inputs, i, upc>>
    /\ UNCHANGED primaryVars
    /\ UNCHANGED reconVars
    /\ UNCHANGED outsideVars

\* The frame of lookup_upc is gone once its result is consumed.
CallEnds ==
    /\ upc' = ""
    /\ attempt' = 0
    /\ wait' = 0
    /\ answers' = <<>>
    /\ sleeps' = <<>>
    /\ result' = NoResult

\* Faulty variant of AppendOutcome: the ledger is filled from the front.
AppendOutcomePrepend(res, u, recs, sent, ledger) ==
    IF res.kind = "ok"
    THEN [records |-> Append(recs, res.payload), reqUpcs |-> Append(sent, u), failed |-> ledger]
    ELSE [records |-> recs, reqUpcs |-> sent, failed |-> <<u>> \o ledger]
\* Faulty variant of AppendOutcome: a 404 is swallowed instead of recorded.
AppendOutcomeDrop404(res, u, recs, sent, ledger) ==
    IF res.kind = "ok"
    THEN [records |-> Append(recs, res.payload), reqUpcs |-> Append(sent, u), failed |-> ledger]
    ELSE IF res.code = 404
    THEN [records |-> recs, reqUpcs |-> sent, failed |-> ledger]
    ELSE [records |-> recs, reqUpcs |-> sent, failed |-> Append(ledger, u)]

\* try: records.append(lookup_upc(upc)) / except HTTPError: failed.append(upc)
AppendOutcome(res, u, recs, sent, ledger) ==
    IF res.kind = "ok"
    THEN [records |-> Append(recs, res.payload), reqUpcs |-> Append(sent, u), failed |-> ledger]
    ELSE [records |-> recs, reqUpcs |-> sent, failed |-> Append(ledger, u)]

\* Faulty variant of Pace: the delay is slept only after a successful lookup.
PaceOnSuccessOnly(res, n) == IF res.kind = "ok" THEN n + 1 ELSE n

\* time.sleep(REQUEST_DELAY) after the try statement, whatever the outcome res
Pace(res, n) == n + 1

\* process_all after lookup_upc: append to records or, on HTTPError, to failed;
\* then time.sleep(REQUEST_DELAY) and the next row.
PA_Handle ==
    /\ pc = "process_all_ret"
    /\ LET new == AppendOutcome(result, upc, records, reqUpcs, failed) IN
       /\ records' = new.records
       /\ reqUpcs' = new.reqUpcs
       /\ failed' = new.failed
    /\ paces' = Pace(result, paces)
    /\ i' = i + 1
    /\ pc' = "process_all"
    /\ CallEnds
    /\ UNCHANGED <<inputs, exitStatus>>
    /\ UNCHANGED reconVars
    /\ UNCHANGED outsideVars

\* process_all returns; main enters save_to_xlsx
PA_Return ==
    /\ pc = "process_all"
    /\ i > Len(inputs)
    /\ pc' = "save_to_xlsx"
    /\ idx' = 1
    /\ rows' = <<>>
    /\ UNCHANGED <<inputs, exitStatus, i>>
    /\ UNCHANGED callVars
    /\ UNCHANGED primaryVars
    /\ UNCHANGED <<cur, off, offAnswer, offReqs, imgReqs, stored, productsFile, failedFile,
                   offResults, offFile>>
    /\ UNCHANGED outsideVars

\* ----------------------------------------------------------- lookup_off
\* Faulty variant of NotFoundDict: the identifier is not carried over.
NotFoundDictNoCode(u) == [code |-> "", status |-> 0, product |-> EmptyOffProduct]

\* {'code': upc, 'status': 0, 'product': {}}
NotFoundDict(u) == [code |-> u, status |-> 0, product |-> EmptyOffProduct]

\* Faulty variant of LookupOff: the HTTP status of a failed request ends up in the
\* dict.
LookupOffStatusKept(u, r) ==
    IF /\ r.kind = "http"
       /\ r.status < 400
       /\ r.json
       /\ r.body.dict
       /\ r.body.status = 1
    THEN [code |-> r.body.code, status |-> r.body.status, product |-> r.body.product]
    ELSE [code |-> u, status |-> r.status, product |-> EmptyOffProduct]

\* The dict lookup_off(u) returns when its request is answered by r: the decoded
\* body when it is a JSON object with status 1, the not-found dict on status != 1
\* and on every exception (timeout, network error, raise_for_status, json decode,
\* .get on a body that is no dict).
LookupOff(u, r) ==
    IF /\ r.kind = "http"
       /\ r.status < 400
       /\ r.json
       /\ r.body.dict
       /\ r.body.status = 1
    THEN [code |-> r.body.code, status |-> r.body.status, product |-> r.body.product]
    ELSE NotFoundDict(u)

\* What the caller of lookup_off can tell about the answer r
Answer(r) == [kind |-> r.kind, status |-> r.status]

\* ---------------------------------------------------------- save_to_xlsx
\* Python's "a or b" on strings
Or(a, b) == IF a # "" THEN a ELSE b

\* any(not v for v in (name, brand, url))
AnyMissing(name, brand, url) == name = "" \/ brand = "" \/ url = ""

\* Faulty variant of Backfill: the secondary value wins whenever it is non-empty.
BackfillOverwrite(v, o) == Or(o, v)

\* if not v: v = off_prod.get(key, '') or v
Backfill(v, o) == IF v = "" THEN Or(o, v) ELSE v

\* The identifier save_to_xlsx works with: item.get('code', '')
ItemUpc(item) == item.code

\* A worksheet cell after the "Not Found" pass over the row
Cell(v) == IF v = "" THEN "Not Found" ELSE v

Row(c) == [upc |-> Cell(c.upc), name |-> Cell(c.name), brand |-> Cell(c.brand),
           url |-> Cell(c.url)]

\* AttributeError (.get on a product entry that is no dict) reaches main's
\* "except Exception": sys.exit("Unexpected error: ...")
Crash ==
    /\ pc' = "exit"
    /\ exitStatus' = "Unexpected error"

\* Head of one iteration of save_to_xlsx: read the item, and query Open Food Facts
\* and merge when a field is missing.
SX_Item ==
    /\ pc = "save_to_xlsx"
    /\ idx <= Len(records)
    /\ LET item == records[idx]
           prod == item.product
           u == ItemUpc(item)
       IN  IF prod.shape = "null"
           THEN /\ Crash
                /\ UNCHANGED <<cur, off, offAnswer, offReqs>>
           ELSE IF AnyMissing(prod.name, prod.brand, prod.imageUrl)
           THEN \E r \in OffResponses(u) :
                  LET o == LookupOff(u, r) IN
                  /\ offReqs' = Append(offReqs, u)
                  /\ offAnswer' = Answer(r)
                  /\ off' = o
                  /\ IF o.product.shape = "null"
                     THEN /\ Crash
                          /\ cur' = [upc |-> u, name |-> prod.name, brand |-> prod.brand,
                                     url |-> prod.imageUrl]
                     ELSE /\ cur' = [upc |-> u,
                                     name |-> Backfill(prod.name, o.product.product_name),
                                     brand |-> Backfill(prod.brand, o.product.brands),
                                     url |-> Backfill(prod.imageUrl, o.product.image_url)]
                          /\ pc' = "sx_image"
                          /\ UNCHANGED exitStatus
           ELSE /\ cur' = [upc |-> u, name |-> prod.name, brand |-> prod.brand,
                           url |-> prod.imageUrl]
                /\ pc' = "sx_image"
                /\ UNCHANGED <<exitStatus, off, offAnswer, offReqs>>
    /\ UNCHANGED <<inputs, i, idx, imgReqs, stored, rows, productsFile, failedFile,
                   offResults, offFile>>
    /\ UNCHANGED callVars
    /\ UNCHANGED primaryVars
    /\ UNCHANGED outsideVars

\* The name, brand and image URL values of the payloads of both providers
Texts == {"", "A", "B", "C", "P"}
Urls == {"http://g/a.jpg", "http://o/b.webp"}

\* ext and the file name written by the image block for the values the rows can hold
ImageFile ==
    [b \in Texts, n \in Texts, u \in Urls |->
        [ext |-> Ext(Chars(u)),
         dest |-> Dest(make_image_filename(Chars(b), Chars(n), Ext(Chars(u))), Ext(Chars(u)))]]

\* The image download of a row with the locals c, ending as out: requested only
\* for a non-empty URL; the file name is built from the row's brand and name and
\* the extension of the URL.
Download(c, out) ==
    IF c.url = ""
    THEN UNCHANGED <<imgReqs, stored>>
    ELSE LET file == ImageFile[c.brand, c.name, c.url]
         IN  /\ imgReqs' = Append(imgReqs, c.url)
             /\ stored' = StoreImage(stored, file.dest, file.ext, c.url, out)

\* The download does not end the iteration: it succeeded, was not tried, or its
\* exception was caught and printed.
Survives(c, out) == c.url = "" \/ out = "ok" \/ Caught(out)

\* Rest of the iteration: download the image, append the row.
SX_Row ==
    /\ pc = "sx_image"
    /\ \E out \in ImageOutcomes :
         /\ Download(cur, out)
         /\ IF Survives(cur, out)
            THEN /\ rows' = Append(rows, Row(cur))
                 /\ idx' = idx + 1
                 /\ pc' = "save_to_xlsx"
                 /\ cur' = NoCur
                 /\ off' = NoOff
                 /\ offAnswer' = NoAnswer
                 /\ UNCHANGED exitStatus
            ELSE /\ Crash
                 /\ UNCHANGED <<rows, idx, cur, off, offAnswer>>
    /\ UNCHANGED <<inputs, i, offReqs, productsFile, failedFile, offResults, offFile>>
    /\ UNCHANGED callVars
    /\ UNCHANGED primaryVars
    /\ UNCHANGED outsideVars

\* save_failed_xlsx writes nothing for an empty ledger
FailedWorkbook(ledger) == IF ledger = <<>> THEN <<>> ELSE <<ledger>>

\* wb.save(output_file), then save_failed_xlsx; main enters process_off
SX_Save ==
    /\ pc = "save_to_xlsx"
    /\ idx > Len(records)
    /\ productsFile' = <<rows>>
    /\ failedFile' = FailedWorkbook(failed)
    /\ pc' = "process_off"
    /\ idx' = 1
    /\ UNCHANGED <<inputs, exitStatus, i, cur, off, offAnswer, offReqs, imgReqs, stored, rows,
                   offResults, offFile>>
    /\ UNCHANGED callVars
    /\ UNCHANGED primaryVars
    /\ UNCHANGED outsideVars

\* ----------------------------------------------- process_off, save_off_xlsx
\* [lookup_off(u) for u in failed]: one element
PO_Lookup ==
    /\ pc = "process_off"
    /\ idx <= Len(failed)
    /\ \E r \in OffResponses(failed[idx]) :
         /\ offResults' = Append(offResults, LookupOff(failed[idx], r))
         /\ offAnswer' = Answer(r)
    /\ offReqs' = Append(offReqs, failed[idx])
    /\ idx' = idx + 1
    /\ UNCHANGED <<inputs, pc, exitStatus, i, cur, off, imgReqs, stored, rows,
                   productsFile, failedFile, offFile>>
    /\ UNCHANGED callVars
    /\ UNCHANGED primaryVars
    /\ UNCHANGED outsideVars

\* process_off returns; main enters save_off_xlsx with a new workbook
PO_Return ==
    /\ pc = "process_off"
    /\ idx > Len(failed)
    /\ pc' = "save_off_xlsx"
    /\ idx' = 1
    /\ rows' = <<>>
    /\ offAnswer' = NoAnswer
    /\ UNCHANGED <<inputs, exitStatus, i, cur, off, offReqs, imgReqs, stored,
                   productsFile, failedFile, offResults, offFile>>
    /\ UNCHANGED callVars
    /\ UNCHANGED primaryVars
    /\ UNCHANGED outsideVars

\* The locals code, name, brands, image_url of one iteration of save_off_xlsx
OffCur(item) ==
    [upc |-> item.code, name |-> item.product.product_name, brand |-> item.product.brands,
     url |-> item.product.image_url]

\* One iteration of save_off_xlsx
SO_Row ==
    /\ pc = "save_off_xlsx"
    /\ idx <= Len(offResults)
    /\ LET item == offResults[idx]
           c == OffCur(item)
       IN  IF item.product.shape = "null"
           THEN /\ Crash
                /\ UNCHANGED <<idx, imgReqs, stored, rows>>
           ELSE \E out \in ImageOutcomes :
                  /\ Download(c, out)
                  /\ IF Survives(c, out)
                     THEN /\ rows' = Append(rows, Row(c))
                          /\ idx' = idx + 1
                          /\ UNCHANGED <<pc, exitStatus>>
                     ELSE /\ Crash
                          /\ UNCHANGED <<idx, rows>>
    /\ UNCHANGED <<inputs, i, cur, off, offAnswer, offReqs, productsFile, failedFile,
                   offResults, offFile>>
    /\ UNCHANGED callVars
    /\ UNCHANGED primaryVars
    /\ UNCHANGED outsideVars

\* wb.save(output_file); main returns
SO_Save ==
    /\ pc = "save_off_xlsx"
    /\ idx > Len(offResults)
    /\ offFile' = <<rows>>
    /\ pc' = "done"
    /\ UNCHANGED <<inputs, exitStatus, i, idx, cur, off, offAnswer, offReqs, imgReqs, stored,
                   rows, productsFile, failedFile, offResults>>
    /\ UNCHANGED callVars
    /\ UNCHANGED primaryVars
    /\ UNCHANGED outsideVars

Next ==
    \/ PA_Skip
    \/ PA_Call
    \/ LU_Request
    \/ PA_Handle
    \/ PA_Return
    \/ SX_Item
    \/ SX_Row
    \/ SX_Save
    \/ PO_Lookup
    \/ PO_Return
    \/ SO_Row
    \/ SO_Save

Spec == Init /\ [][Next]_vars

\* ===================================================================
\* The image block of save_to_xlsx / save_off_xlsx (lines 178-193 and 244-259) on
\* its own, for any brand, name and URL.
\* ===================================================================
TextChars == {"a", " ", "_", "/"}

BenAndJerrys == <<"B", "e", "n", " ", "&", " ", "J", "e", "r", "r", "y", "'", "s", "!">>
ChocMint == <<"C", "h", "o", "c", "/", "M", "i", "n", "t">>

\* The brand and the name of a row
ImageTexts ==
    (SeqsUpTo(TextChars, MaxLen) \X SeqsUpTo(TextChars, MaxLen))
        \cup {<<BenAndJerrys, ChocMint>>}

UrlHost == <<"h", "t", "t", "p", ":", "/", "/", "h", "/", "a">>
UrlSuffixes ==
    {<<>>, Jpg, <<".", "J", "P", "G">>, Webp, <<".", "W", "e", "b", "P">>,
     <<".", "j", "p", "_">>, <<".", "w", "e", "b", "p", "_">>, <<".", "j", "p", "g", ":", "x">>}
UrlQueries == {<<>>, <<"?", "v", "=", "1">>}

\* Non-empty image URLs ("if url:")
ImageUrls ==
    {UrlHost \o s \o q : s \in UrlSuffixes, q \in UrlQueries}
        \cup {<<"h", "t", "t", "p", ":", "/", "/", "h", ".", "i", "o">>,
              <<"h", "t", "t", "p", ":", "/", "/", "h", "/", "a", ".", "j", "p", "g", "/">>}

pipelineRest == <<inputs, exitStatus, i, idx, cur, off, offAnswer, offReqs, rows,
                  productsFile, failedFile, offResults, offFile>>

InitImage ==
    /\ inputs = <<>>
    /\ pc = "image_ext"
    /\ PipelineIdle
    /\ SeparateIdle
    /\ imgUrl \in ImageUrls
    /\ \E t \in ImageTexts : imgBrand = t[1] /\ imgName = t[2]
    /\ imgExt = <<>>
    /\ imgFn = <<>>

\* ext = Path(url).suffix.split('?')[0].lower() or '.jpg'
IM_Ext ==
    /\ pc = "image_ext"
    /\ imgExt' = Ext(imgUrl)
    /\ pc' = "image_name"
    /\ UNCHANGED <<imgBrand, imgName, imgUrl, imgFn, imgReqs, stored>>
    /\ UNCHANGED <<pipelineRest, callVars, primaryVars, separateVars>>

\* fn = make_image_filename(brand, name, ext)
IM_Name ==
    /\ pc = "image_name"
    /\ imgFn' = make_image_filename(imgBrand, imgName, imgExt)
    /\ pc' = "image_get"
    /\ UNCHANGED <<imgBrand, imgName, imgUrl, imgExt, imgReqs, stored>>
    /\ UNCHANGED <<pipelineRest, callVars, primaryVars, separateVars>>

\* The try block: download, convert or write; an exception is caught and printed.
IM_Get ==
    /\ pc = "image_get"
    /\ imgReqs' = Append(imgReqs, imgUrl)
    /\ \E out \in ImageOutcomes :
         /\ stored' = StoreImage(stored, Dest(imgFn, imgExt), imgExt, imgUrl, out)
         /\ IF out = "ok" \/ Caught(out)
            THEN pc' = "image_done" /\ UNCHANGED exitStatus
            ELSE Crash
    /\ UNCHANGED <<imgBrand, imgName, imgUrl, imgExt, imgFn>>
    /\ UNCHANGED <<inputs, i, idx, cur, off, offAnswer, offReqs, rows, productsFile,
                   failedFile, offResults, offFile>>
    /\ UNCHANGED <<callVars, primaryVars, separateVars>>

NextImage ==
    \/ IM_Ext
    \/ IM_Name
    \/ IM_Get

SpecImage == InitImage /\ [][NextImage]_vars

\* ===================================================================
\* productDetailsExtractionSeparate.py: one Go-UPC request per barcode, the
\* answer sorted into found_records or not_found_barcodes.
\* ===================================================================
\* The "product" entry of a body: absent, null, {}, a non-empty value that is no
\* object (a string), or an object.
SepProducts ==
    {[shape |-> s, name |-> "", brand |-> "", upc |-> "", imageUrl |-> ""] :
        s \in {"absent", "null", "empty", "text"}}
    \cup {[shape |-> "object", name |-> "A", brand |-> "P", upc |-> "u1",
           imageUrl |-> "http://g/a.jpg"],
          [shape |-> "object", name |-> "A", brand |-> "", upc |-> "", imageUrl |-> ""]}

NoSepBody == [dict |-> FALSE, code |-> "", product |-> [shape |-> "absent", name |-> "",
              brand |-> "", upc |-> "", imageUrl |-> ""]]

\* Decoded bodies: something that is no JSON object, or an object with or without
\* a code
SepBodies(b) ==
    {NoSepBody}
    \cup {[dict |-> TRUE, code |-> b, product |-> p] : p \in SepProducts}
    \cup {[dict |-> TRUE, code |-> "", product |-> p] : p \in {q \in SepProducts : q.brand = "P"}}

\* What requests.get + response.json() can produce for one request
SepResponses(b) ==
    {[kind |-> k, status |-> 0, json |-> FALSE, body |-> NoSepBody] : k \in {"timeout", "neterr"}}
    \cup {[kind |-> "http", status |-> s, json |-> FALSE, body |-> NoSepBody] :
            s \in {200, 401, 404, 429, 500}}
    \cup {[kind |-> "http", status |-> 200, json |-> TRUE, body |-> d] : d \in SepBodies(b)}

InitSeparate ==
    /\ inputs = <<>>
    /\ pc = "separate_loop"
    /\ PipelineIdle
    /\ ImageIdle
    /\ barcodes \in SeqsUpTo(Cells, MaxRows)
    /\ bk = 1
    /\ sepAnswers = <<>>
    /\ found_records = <<>>
    /\ not_found_barcodes = <<>>
    /\ sepFiles = {}

\* Faulty variant of SepFound: "if product:" is left out.
SepFoundNoProductCheck(r) ==
    /\ r.kind = "http"
    /\ r.status = 200
    /\ r.json
    /\ r.body.dict
    /\ r.body.product.shape # "text"

\* The try block of one iteration appends to found_records: the request returned,
\* the status is 200, the body decodes to an object, "if product:" passes, and the
\* .get calls on product raise nothing
SepFound(r) ==
    /\ r.kind = "http"
    /\ r.status = 200
    /\ r.json
    /\ r.body.dict
    /\ r.body.product.shape \notin {"absent", "null", "empty"}
    /\ r.body.product.shape # "text"

\* The dict appended to found_records
SepEntry(r) ==
    [barcode |-> r.body.code, product_name |-> r.body.product.name,
     brand |-> r.body.product.brand, upc |-> r.body.product.upc,
     image_url |-> r.body.product.imageUrl]

\* One iteration of the loop over the barcodes
SEP_Request ==
    /\ pc = "separate_loop"
    /\ bk <= Len(barcodes)
    /\ \E r \in SepResponses(barcodes[bk]) :
         /\ sepAnswers' = Append(sepAnswers, r)
         /\ IF SepFound(r)
            THEN /\ found_records' = Append(found_records, SepEntry(r))
                 /\ UNCHANGED not_found_barcodes
            ELSE /\ not_found_barcodes' = Append(not_found_barcodes, barcodes[bk])
                 /\ UNCHANGED found_records
    /\ bk' = bk + 1
    /\ UNCHANGED <<pc, barcodes, sepFiles>>
    /\ UNCHANGED <<pipelineRest, callVars, primaryVars, imgReqs, stored, imageVars>>

\* After the loop: each non-empty list is written to its Excel file
SEP_Save ==
    /\ pc = "separate_loop"
    /\ bk > Len(barcodes)
    /\ sepFiles' = {f \in {"foundgoupc_products.xlsx", "not_foundgoupc_barcodes.xlsx"} :
                      IF f = "foundgoupc_products.xlsx" THEN found_records # <<>>
                      ELSE not_found_barcodes # <<>>}
    /\ pc' = "separate_done"
    /\ UNCHANGED <<barcodes, bk, sepAnswers, found_records, not_found_barcodes>>
    /\ UNCHANGED <<pipelineRest, callVars, primaryVars, imgReqs, stored, imageVars>>

NextSeparate ==
    \/ SEP_Request
    \/ SEP_Save

SpecSeparate == InitSeparate /\ [][NextSeparate]_vars


\* ===================================================================
\* Properties
\* ===================================================================
Count(x, s) == Cardinality({j \in 1..Len(s) : s[j] = x})

\* The content of a workbook: nothing when it was not written
Written(f) == IF f = <<>> THEN <<>> ELSE f[1]

RowUpcs(rs) == [j \in 1..Len(rs) |-> rs[j].upc]

RECURSIVE Pow2(_)
Pow2(n) == IF n = 0 THEN 1 ELSE 2 * Pow2(n - 1)

\* Number of times identifier u is reported over the three outputs
Reported(u) ==
    Count(u, RowUpcs(Written(productsFile))) + Count(u, Written(failedFile))
        + Count(u, RowUpcs(Written(offFile)))

\* C1 (as stated): after a run that ends normally, every input identifier is
\* reported in exactly one of the three outputs, exactly once.
C1_ExactlyOneOutput ==
    pc = "done" =>
        \A u \in UPCS : (\E j \in 1..Len(inputs) : inputs[j] = u) => Reported(u) = 1

\* C1 (amended): every non-empty row process_all has consumed contributed exactly
\* one entry to exactly one of records and the failure ledger (an identifier read n
\* times is entered n times); a written product workbook has one row per record, a
\* written failed-UPC list is the ledger, and a written OFF workbook has one row per
\* ledger entry, so a failed identifier is reported both in the failed list and in
\* the OFF output.
C1_Accounting ==
    /\ \A u \in UPCS :
         Count(u, SubSeq(inputs, 1, i - 1)) = Count(u, reqUpcs) + Count(u, failed)
    /\ Len(reqUpcs) = Len(records)
    /\ productsFile # <<>> =>
         /\ Len(productsFile[1]) = Len(records)
         /\ Written(failedFile) = failed
         /\ i = Len(inputs) + 1
    /\ offFile # <<>> => Len(offFile[1]) = Len(failed)
    /\ pc = "done" => productsFile # <<>> /\ offFile # <<>>

\* A run ended normally with a resolved record and a ledger entry.
C1_Witness == pc = "done" /\ Len(records) >= 1 /\ Len(failed) >= 1

IsSuccess(r) == r.kind = "http" /\ r.status = 200 /\ r.json
Is429(r) == r.kind = "http" /\ r.status = 429

\* C2: when the first k answers (k < MAX_RETRIES) are 429 and answer k+1 is a
\* 200 with a payload, the call has ended with that payload after exactly k+1
\* requests and k backoff sleeps of INITIAL_WAIT, 2*INITIAL_WAIT, ..., in order.
C2_RetryThenSuccess ==
    \A k \in 0..(MAX_RETRIES - 1) :
        ( /\ Len(answers) >= k + 1
          /\ \A j \in 1..k : Is429(answers[j])
          /\ IsSuccess(answers[k + 1]) )
        => /\ Len(answers) = k + 1
           /\ pc = "process_all_ret"
           /\ result.kind = "ok"
           /\ result.payload = answers[k + 1].payload
           /\ sleeps = [j \in 1..k |-> INITIAL_WAIT * Pow2(j - 1)]

\* Three 429s, then success: delays 1, 2, 4.
C2_Witness ==
    /\ pc = "process_all_ret"
    /\ result.kind = "ok"
    /\ Len(answers) = 4
    /\ sleeps = <<1, 2, 4>>

All429 == \A j \in 1..Len(answers) : Is429(answers[j])

\* C3: while every answer is a 429 the call goes on until MAX_RETRIES requests
\* were made and then ends with an HTTPError that carries no 404 response (so it can
\* be told from NotFound); process_all then appends the identifier to the ledger
\* and creates no record.
C3_Exhausted ==
    /\ [](/\ Len(answers) <= MAX_RETRIES
          /\ (All429 /\ Len(answers) \in 1..(MAX_RETRIES - 1))
                => (pc = "lookup_upc" /\ result.kind = "none")
          /\ (All429 /\ Len(answers) = MAX_RETRIES)
                => /\ pc = "process_all_ret"
                   /\ result.kind = "HTTPError"
                   /\ result.code # 404)
    /\ [][(All429 /\ Len(answers) = MAX_RETRIES)
            => (failed' = Append(failed, upc) /\ records' = records)]_vars

C3_Witness ==
    /\ pc = "process_all_ret"
    /\ All429
    /\ Len(answers) = MAX_RETRIES
    /\ Len(sleeps) = MAX_RETRIES

FirstIs404 == Len(answers) >= 1 /\ answers[1].kind = "http" /\ answers[1].status = 404

\* C4: when the first answer for an identifier is a 404, that was the only request,
\* no backoff delay was slept, the call ended with the 404 HTTPError, and process_all
\* appends the identifier to the ledger and creates no record.
C4_NotFoundShortCircuit ==
    /\ [](FirstIs404 =>
            /\ Len(answers) = 1
            /\ sleeps = <<>>
            /\ pc = "process_all_ret"
            /\ result.kind = "HTTPError"
            /\ result.code = 404)
    /\ [][FirstIs404 => (failed' = Append(failed, upc) /\ records' = records)]_vars

C4_Witness == FirstIs404 /\ pc = "process_all_ret" /\ result.code = 404 /\ sleeps = <<>>

FatalAnswered ==
    \E j \in 1..Len(answers) : answers[j].kind = "http" /\ answers[j].status \in {401, 403}

\* C5: once a Go-UPC request was answered 401 or 403, the run has ended with the
\* authentication failure status (not the "Unexpected error" of main's handler),
\* the identifier of the call was entered neither in records nor in the ledger (the
\* entries are those of the rows before it),
\* no request went to Open Food Facts or to an image host, no workbook was written,
\* and no further step is taken.
C5_FatalHalts ==
    /\ [](FatalAnswered =>
            /\ pc = "exit"
            /\ exitStatus = "Authentication error"
            /\ result.kind = "SystemExit"
            /\ Len(records) + Len(failed) = Count(FALSE, [j \in 1..(i - 1) |-> inputs[j] = ""])
            /\ offReqs = <<>>
            /\ imgReqs = <<>>
            /\ productsFile = <<>>
            /\ failedFile = <<>>
            /\ offFile = <<>>)
    /\ [][FatalAnswered => UNCHANGED vars]_vars

\* The second of two rows is never looked up: the first one was answered 401/403
\* after a retry.
C5_Witness ==
    /\ FatalAnswered
    /\ pc = "exit"
    /\ i = 1
    /\ Len(inputs) = 2
    /\ inputs[2] # ""
    /\ Len(answers) = 2

\* What the report shows for a value
Shown(v) == IF v = "" THEN "Not Found" ELSE v

\* The emitted value of one field, given the primary and the secondary value
FieldOk(primary, secondary, out) ==
    IF primary # "" THEN out = primary
    ELSE IF secondary # "" THEN out = secondary
    ELSE out = "Not Found"

\* C6: the row save_to_xlsx emits for a record carries, for each of name, brand and
\* image URL, the primary value when that is non-empty, else the secondary value
\* when that is non-empty, else the marker "Not Found".
C6_Precedence ==
    [][pc = "sx_image" =>
         LET prod == records[idx].product
             row == rows'[Len(rows')]
         IN  /\ Len(rows') = Len(rows) + 1
             /\ FieldOk(prod.name, off.product.product_name, row.name)
             /\ FieldOk(prod.brand, off.product.brands, row.brand)
             /\ FieldOk(prod.imageUrl, off.product.image_url, row.url)]_vars

\* Primary {name: A, brand: absent} was merged with a secondary {name: B, brand: C}
\* and emitted as {name: A, brand: C}.
C6_Witness ==
    /\ pc = "save_to_xlsx"
    /\ idx = 2
    /\ records[1].product.name = "A"
    /\ records[1].product.brand = ""
    /\ rows[1].name = "A"
    /\ rows[1].brand = "C"
    /\ rows[1].url = "http://o/b.webp"

\* Records save_to_xlsx has queried or passed so far
Handled == IF pc = "sx_image" THEN idx ELSE idx - 1

\* The identifiers submitted to Go-UPC for those of the first n records that miss
\* a field, in order
RECURSIVE SubmittedForPartial(_)
SubmittedForPartial(n) ==
    IF n = 0 THEN <<>>
    ELSE LET prod == records[n].product
         IN  IF AnyMissing(prod.name, prod.brand, prod.imageUrl)
             THEN Append(SubmittedForPartial(n - 1), reqUpcs[n])
             ELSE SubmittedForPartial(n - 1)

\* C7 (as stated): in save_to_xlsx the secondary provider is queried once for each
\* record that misses a field and for no other, with the identifier that was
\* submitted to the primary provider for that record.
C7_BackfillSameIdentifier ==
    pc \in {"save_to_xlsx", "sx_image"} => offReqs = SubmittedForPartial(Handled)

NBackfill ==
    Cardinality({j \in 1..Len(records) :
                   AnyMissing(records[j].product.name, records[j].product.brand,
                              records[j].product.imageUrl)})

\* The queries made by process_off
FallbackReqs == SubSeq(offReqs, NBackfill + 1, Len(offReqs))

FallbackRowOk(u, d, row) ==
    IF d.status # 1
    THEN row = [upc |-> u, name |-> "Not Found", brand |-> "Not Found", url |-> "Not Found"]
    ELSE row = [upc |-> Shown(d.code), name |-> Shown(d.product.product_name),
                brand |-> Shown(d.product.brands), url |-> Shown(d.product.image_url)]

\* C8: process_off queries the secondary provider once per ledger entry, in ledger
\* order; the row emitted for an entry carries the ledger identifier and no field
\* when the provider reported not-found, and otherwise exactly the code and the
\* fields of the secondary payload.
C8_Fallback ==
    /\ pc = "process_off" =>
         /\ FallbackReqs = SubSeq(failed, 1, idx - 1)
         /\ Len(offResults) = idx - 1
    /\ pc \in {"save_off_xlsx", "done"} =>
         /\ FallbackReqs = failed
         /\ Len(offResults) = Len(failed)
         /\ \A j \in 1..Len(rows) : FallbackRowOk(failed[j], offResults[j], rows[j])
    /\ pc = "done" => offFile = <<rows>> /\ Len(rows) = Len(failed)

\* Two different ledger entries, the first not found, the second found.
C8_Witness ==
    /\ pc = "done"
    /\ Len(failed) = 2
    /\ failed[1] # failed[2]
    /\ offResults[1].status = 0
    /\ offResults[2].status = 1
    /\ offFile[1][1].upc = failed[1]
    /\ offFile[1][2].name = "B"

\* A dict returned by lookup_off in this run has a product entry that is no object
SecondaryMalformed ==
    \/ off.product.shape = "null"
    \/ \E j \in 1..Len(offResults) : offResults[j].product.shape = "null"

\* C9 (as stated): a malformed answer of the secondary provider is treated as
\* not-found and never ends the run.
C9_SecondaryContained ==
    /\ ~SecondaryMalformed
    /\ ~(pc = "exit" /\ exitStatus = "Unexpected error" /\ offReqs # <<>>)

\* C10 (as stated): a 200 answer of the primary provider whose product entry is
\* empty or absent creates no resolved record.
C10_EmptyProductIsNotFound ==
    \A j \in 1..Len(records) : records[j].product.shape # "absent"

\* C11 (as stated): unless a Go-UPC request was answered 401 or 403, nothing ends
\* the run early: every lookup_upc call ends after at most MAX_RETRIES requests and
\* every other failure is absorbed, so the run is never aborted and, once it has
\* ended, all three reports were handled and cover every input identifier.
C11_RunCompletes ==
    /\ Len(answers) <= MAX_RETRIES
    /\ pc = "exit" => FatalAnswered
    /\ pc = "done" =>
         /\ productsFile # <<>>
         /\ offFile # <<>>
         /\ \A j \in 1..Len(inputs) : inputs[j] # "" => Reported(inputs[j]) >= 1

Transient(r) ==
    \/ r.kind \in {"timeout", "neterr"}
    \/ r.kind = "http" /\ r.status >= 400 /\ r.status \notin {429, 404, 401, 403}

TransientAnswered == \E j \in 1..Len(answers) : Transient(answers[j])

\* C16: a timeout, a network error or an HTTP error other than 429/404/401/403 is
\* never retried: it is the last answer of its call, whether it came first or after
\* earlier 429s; no backoff follows it (one delay per earlier 429 only); the call
\* ends with an HTTPError, and process_all appends the identifier to the ledger,
\* creates no record and goes on to the next row.
C16_TransientNotRetried ==
    /\ [](\A j \in 1..Len(answers) :
            Transient(answers[j]) =>
                /\ j = Len(answers)
                /\ \A k \in 1..(j - 1) : Is429(answers[k])
                /\ Len(sleeps) = j - 1
                /\ pc = "process_all_ret"
                /\ result.kind = "HTTPError"
                /\ exitStatus = "")
    /\ [][TransientAnswered =>
            /\ failed' = Append(failed, upc)
            /\ records' = records
            /\ i' = i + 1
            /\ pc' = "process_all"
            /\ offReqs' = offReqs]_vars

\* Two 429s, then a timeout: the call has ended after the third request.
C16_Witness ==
    /\ pc = "process_all_ret"
    /\ Len(answers) = 3
    /\ answers[3].kind = "timeout"
    /\ sleeps = <<1, 2>>
    /\ result.kind = "HTTPError"

\* The elements of s at the positions in S, in order
RECURSIVE Restrict(_, _, _)
Restrict(s, S, n) ==
    IF n = 0 THEN <<>>
    ELSE IF n \in S THEN Append(Restrict(s, S, n - 1), s[n])
    ELSE Restrict(s, S, n - 1)

\* The codes of those of the first n records that miss a field, in order
RECURSIVE CodesForPartial(_)
CodesForPartial(n) ==
    IF n = 0 THEN <<>>
    ELSE LET prod == records[n].product
         IN  IF AnyMissing(prod.name, prod.brand, prod.imageUrl)
             THEN Append(CodesForPartial(n - 1), ItemUpc(records[n]))
             ELSE CodesForPartial(n - 1)

InPrimaryStage == pc \in {"process_all", "lookup_upc", "process_all_ret"}

\* C18: the stages run one after the other and keep the input order: no request
\* goes to Open Food Facts or to an image host before the last Go-UPC lookup has
\* ended; no fallback query is made before the product workbook (and so every
\* backfill query) is done; the identifiers passed on as records and those entered
\* in the ledger are the consumed non-empty rows, split in two with their order
\* kept; backfill queries follow the order of the records and fallback queries the
\* order of the ledger.
C18_StageOrder ==
    /\ (offReqs # <<>> \/ imgReqs # <<>>) =>
         /\ ~InPrimaryStage
         /\ i = Len(inputs) + 1
         /\ answers = <<>>
    /\ InPrimaryStage =>
         \E S \in SUBSET {j \in 1..(i - 1) : inputs[j] # ""} :
            /\ reqUpcs = Restrict(inputs, S, i - 1)
            /\ failed = Restrict(inputs, {j \in 1..(i - 1) : inputs[j] # ""} \ S, i - 1)
    /\ pc \in {"save_to_xlsx", "sx_image"} =>
         /\ offReqs = CodesForPartial(Handled)
         /\ offResults = <<>>
    /\ offResults # <<>> =>
         /\ productsFile # <<>>
         /\ Len(productsFile[1]) = Len(records)
         /\ Len(offReqs) = NBackfill + Len(offResults)
    /\ pc \in {"process_off", "save_off_xlsx", "done"} =>
         /\ SubSeq(offReqs, 1, NBackfill) = CodesForPartial(Len(records))
         /\ FallbackReqs = SubSeq(failed, 1, Len(offResults))

\* Two rows u2, u1: a record for u2 that needed a backfill query, then a ledger
\* entry for u1 that got a fallback query.
C18_Witness ==
    /\ pc = "done"
    /\ inputs = <<"u2", "u1">>
    /\ reqUpcs = <<"u2">>
    /\ failed = <<"u1">>
    /\ offReqs = <<"u2", "u1">>

\* ------------------------------------------------------------- image block
ImageNamed == pc \in {"image_get", "image_done"}
CharsOf(s) == {s[j] : j \in 1..Len(s)}
StartsWith(s, p) == Len(s) >= Len(p) /\ SubSeq(s, 1, Len(p)) = p
EndsWith(s, p) == Len(s) >= Len(p) /\ SubSeq(s, Len(s) - Len(p) + 1, Len(s)) = p
IsExample == imgBrand = BenAndJerrys /\ imgName = ChocMint

\* "Ben_Jerry_s_Choc_Mint"
StemWithoutSpaces ==
    <<"B", "e", "n", "_", "J", "e", "r", "r", "y", "_", "s", "_",
      "C", "h", "o", "c", "_", "M", "i", "n", "t">>

\* "Ben _ Jerry_s_Choc_Mint"
StemWithSpaces ==
    <<"B", "e", "n", " ", "_", " ", "J", "e", "r", "r", "y", "_", "s", "_",
      "C", "h", "o", "c", "_", "M", "i", "n", "t">>

\* C12 (as stated): for brand "Ben & Jerry's!" and name "Choc/Mint" the stem of the
\* file name is "Ben_Jerry_s_Choc_Mint", and for all inputs the file name has no
\* path separator and no character outside [A-Za-z0-9 _.-].
C12_Sanitized ==
    ImageNamed =>
        /\ IsExample => StartsWith(imgFn, StemWithoutSpaces \o <<".">>)
        /\ CharsOf(imgFn) \subseteq (SafeChars \cup {"."})

\* C12 (amended): spaces and hyphens are kept, only runs of other characters
\* become one underscore: for brand "Ben & Jerry's!" and name "Choc/Mint" the stem
\* is "Ben _ Jerry_s_Choc_Mint". For all brands and names and every extension taken
\* from a URL the file name is not empty, has no path separator, no two
\* underscores in a row, no underscore or space at either end, and a character
\* outside [A-Za-z0-9 _.-] only where the extension has it (the extension is not
\* sanitized).
C12_SanitizedKeepingSpaces ==
    ImageNamed =>
        /\ IsExample => StartsWith(imgFn, StemWithSpaces \o <<".">>)
        /\ imgFn # <<>>
        /\ "/" \notin CharsOf(imgFn)
        /\ CharsOf(imgFn) \subseteq (SafeChars \cup {"."} \cup CharsOf(imgExt))
        /\ \A j \in 1..(Len(imgFn) - 1) : ~(imgFn[j] = "_" /\ imgFn[j + 1] = "_")
        /\ imgFn[1] \notin {"_", " "}
        /\ imgFn[Len(imgFn)] \notin {"_", " "}

\* The example, with the extension of a URL that ends in ".jpg:x".
C12_Witness ==
    /\ ImageNamed
    /\ IsExample
    /\ imgFn = StemWithSpaces \o <<".", "j", "p", "g", ":", "x">>

\* C13 (as stated): when the sanitized brand and the sanitized name are both
\* empty, the file name is "unknown" followed by the extension.
C13_UnknownFallback ==
    (ImageNamed /\ Sanitize(imgBrand) = <<>> /\ Sanitize(imgName) = <<>>)
        => imgFn = Unknown \o imgExt

\* C14 (as stated): a payload whose extension (the lowercased URL suffix) is .webp
\* is stored re-encoded under a name that ends in .png, nothing is stored under a
\* .webp name, and for any other extension the bytes are stored as downloaded
\* under a name that ends in that extension.
C14_AssetNormalized ==
    pc = "image_done" =>
        \A f \in stored :
            /\ imgExt = Webp => EndsWith(f.path, Png) /\ f.bytes = "png"
            /\ imgExt # Webp => EndsWith(f.path, imgExt) /\ f.bytes = "raw"
            /\ ~EndsWith(f.path, Webp)

\* ---------------------------------------------------------------- pacing
\* lookup calls that have returned to their caller
LookupsReturned == Len(records) + Len(failed) + Len(offReqs)

\* C15 (as stated): every lookup call, to the primary or to the secondary
\* provider, is followed by exactly one pacing delay before the next lookup call.
C15_EveryLookupPaced ==
    pc # "exit" => (paces <= LookupsReturned /\ paces >= LookupsReturned - 1)

\* C15 (amended): every lookup_upc call that returns to process_all, whatever its
\* outcome, is followed by exactly one sleep of REQUEST_DELAY before the next row
\* is read, apart from the 429 backoff inside the call; no pacing delay follows a
\* lookup_off call, neither in the backfill nor in the fallback.
C15_PrimaryPaced ==
    /\ [](/\ paces = Len(records) + Len(failed)
          /\ pc = "lookup_upc" => paces = Count(FALSE, [j \in 1..(i - 1) |-> inputs[j] = ""]))
    /\ [][paces' # paces =>
            /\ pc = "process_all_ret"
            /\ paces' = paces + 1
            /\ pc' = "process_all"]_vars
    /\ [][offReqs' # offReqs => paces' = paces]_vars

\* Two paced primary lookups, then two fallback queries with no delay.
C15_Witness ==
    /\ pc = "done"
    /\ paces = 2
    /\ Len(failed) = 2
    /\ Len(offReqs) = 2

\* ------------------------------------------------------ secondary provider
\* lookup_off calls made so far
OffCalls ==
    IF InPrimaryStage THEN 0
    ELSE IF pc \in {"save_to_xlsx", "sx_image"} THEN Len(CodesForPartial(Handled))
    ELSE NBackfill + Len(offResults)

\* The dict the latest lookup_off call returned
LastOffResult ==
    IF pc = "sx_image" THEN off
    ELSE IF offResults # <<>> THEN offResults[Len(offResults)]
    ELSE NoOff

OffFailed ==
    \/ offAnswer.kind \in {"timeout", "neterr"}
    \/ offAnswer.kind = "http" /\ offAnswer.status >= 400

\* C17 (as stated): a 429 of the secondary provider is retried: the query is not
\* resolved as not-found before a further request was made for it.
C17_SecondaryRetried ==
    (pc # "exit" /\ offAnswer.kind = "http" /\ offAnswer.status = 429)
        => Len(offReqs) > OffCalls

\* C17 (amended): lookup_off makes exactly one request per call and sleeps no
\* backoff; a 429, like a timeout, a network error and any other HTTP error, makes
\* the call return the not-found dict for the queried identifier at once.
C17_SecondarySingleRequest ==
    /\ [](pc # "exit" => Len(offReqs) = OffCalls)
    /\ []((pc # "exit" /\ OffFailed) =>
            LastOffResult = [code |-> offReqs[Len(offReqs)], status |-> 0,
                             product |-> EmptyOffProduct])
    /\ [][offReqs' # offReqs =>
            /\ Len(offReqs') = Len(offReqs) + 1
            /\ sleeps' = sleeps
            /\ paces' = paces]_vars

\* The first fallback query was answered 429 and is resolved as not-found.
C17_Witness ==
    /\ pc = "process_off"
    /\ offAnswer = [kind |-> "http", status |-> 429]
    /\ Len(offReqs) = 1
    /\ Len(offResults) = 1
    /\ offResults[1].status = 0

\* ------------------------------------------------------- image failures
\* The row of the report for the locals c
Emitted(c) ==
    [upc |-> Shown(c.upc), name |-> Shown(c.name), brand |-> Shown(c.brand),
     url |-> Shown(c.url)]

\* The step appends the row of c, goes on at next with the following item, and requests the
\* image exactly when c has a URL
RowStep(c, next) ==
    /\ rows' = Append(rows, Emitted(c))
    /\ idx' = idx + 1
    /\ pc' = next
    /\ exitStatus' = ""
    /\ c.url = "" => (imgReqs' = imgReqs /\ stored' = stored)
    /\ c.url # "" => imgReqs' = Append(imgReqs, c.url)

\* C19: whatever the image download comes to (stored, request failed, conversion
\* or write failed), the row is emitted with its name, brand and URL as they were,
\* the loop goes on with the next item and the run is not ended; a row without a
\* URL causes no image request; every record and every ledger entry has its row
\* in the finished workbooks.
C19_ImageFailureContained ==
    /\ [][pc = "sx_image" => RowStep(cur, "save_to_xlsx")]_vars
    /\ [][(/\ pc = "save_off_xlsx"
           /\ idx <= Len(offResults)
           /\ offResults[idx].product.shape # "null")
            => RowStep(OffCur(offResults[idx]), "save_off_xlsx")]_vars
    /\ [](pc = "done" =>
            /\ Len(productsFile[1]) = Len(records)
            /\ Len(offFile[1]) = Len(failed))

\* Two records with an image URL, both downloads failed, and the run has ended
\* with both rows in the product workbook.
C19_Witness ==
    /\ pc = "done"
    /\ Len(imgReqs) = 2
    /\ stored = {}
    /\ Len(productsFile[1]) = 2
    /\ productsFile[1][1].url = imgReqs[1]
    /\ productsFile[1][2].url = imgReqs[2]

\* ------------------------------------ productDetailsExtractionSeparate.py
\* The answer is a 200 with a decodable body whose product is non-empty and whose
\* fields can be read
IsGood(r) ==
    /\ r.kind = "http"
    /\ r.status = 200
    /\ r.json
    /\ r.body.dict
    /\ r.body.product.shape \notin {"absent", "null", "empty"}
    /\ r.body.product.shape # "text"

Processed == 1..(bk - 1)
GoodOnes == {j \in Processed : IsGood(sepAnswers[j])}

\* C20: each barcode processed made exactly one request and contributed exactly
\* one entry to exactly one of found_records and not_found_barcodes: to
\* found_records when its answer was a 200 with a decodable body whose product is
\* non-empty and readable, to not_found_barcodes on every other outcome; both
\* lists keep the input order; no outcome stops the loop before the last barcode.
C20_Partition ==
    /\ [](/\ Len(sepAnswers) = bk - 1
          /\ bk <= Len(barcodes) + 1
          /\ Len(found_records) + Len(not_found_barcodes) = bk - 1
          /\ found_records =
                Restrict([j \in Processed |-> SepEntry(sepAnswers[j])], GoodOnes, bk - 1)
          /\ not_found_barcodes = Restrict(barcodes, Processed \ GoodOnes, bk - 1)
          /\ pc \in {"separate_loop", "separate_done"}
          /\ pc = "separate_done" => bk = Len(barcodes) + 1)
    /\ [][(pc = "separate_loop" /\ bk <= Len(barcodes)) =>
            /\ bk' = bk + 1
            /\ pc' = "separate_loop"
            /\ Len(sepAnswers') = Len(sepAnswers) + 1]_vars

\* A 401 for the first barcode did not stop the loop: the second one was found.
C20_Witness ==
    /\ pc = "separate_done"
    /\ Len(barcodes) = 2
    /\ sepAnswers[1].status = 401
    /\ IsGood(sepAnswers[2])
    /\ Len(found_records) = 1
    /\ not_found_barcodes = <<barcodes[1]>>
    /\ sepFiles = {"foundgoupc_products.xlsx", "not_foundgoupc_barcodes.xlsx"}

====
